---- MODULE Spec2Model ----
(***************************************************************************)
(* A model of the elasticlogrus hook (package elasticlogrus): the Hook     *)
(* struct, New, its configuration (SetLevel, SetFormatter,                 *)
(* SetDocumentType), the default formatter, its three delivery strategies  *)
(* (syncFlush, asyncFlush and the bulk closure installed by                *)
(* EnableBulkFlush), and Close.                                            *)
(*                                                                         *)
(* The Elasticsearch client is an external collaborator.  A single index   *)
(* request (client.Index()...Do(hook.ctx)) succeeds exactly when the sink  *)
(* is reachable and the context passed to it is not cancelled.  The bulk   *)
(* processor (client.BulkProcessor()...Do(context.Background())) is the    *)
(* client library's batching controller: requests are handed to one of its *)
(* workers over an unbuffered channel, a worker commits its batch when the *)
(* bulk-actions threshold is reached, on a periodic flush, on a manual     *)
(* Flush and when the processor is stopped.  Flush and Close of the        *)
(* processor report no error to their caller; using a processor after it   *)
(* was stopped (Add, Flush) or a nil processor is a run-time panic.        *)
(***************************************************************************)
EXTENDS Integers, Sequences, FiniteSets, TLC

\* ------------------------------------------------------------------ bounds
NumThreads == 2        \* goroutines of the host program calling the hook
MaxFires == 2          \* Fire calls in one behaviour
MaxProcs == 1          \* EnableBulkFlush calls in one behaviour
MaxWorkers == 2        \* largest BulkOptions.Workers tried
SmallBulkActions == 2  \* the non-default BulkOptions.BulkActions tried

Threads == 1..NumThreads
MaxChain == MaxProcs + 1   \* EnableBulkFlush calls where the claim is about several
Procs == 1..MaxChain
Workers == 1..MaxWorkers
NilProc == 0           \* the nil *BulkProcessor returned with an error

VARIABLES
    flushFunc,    \* Hook.flushFunc: "sync", "async" or "bulk"
    bulkProc,     \* the processor captured by the bulk flushFunc closure
    cancelChain,  \* Hook.cancel: the processors wrapped around the context's cancel, oldest first
    ctxDone,      \* Hook.ctx is cancelled
    errorLogger,  \* Hook.errorLogger is not nil
    docType,      \* Hook.docType
    formatter,    \* Hook.formatter
    sinkUp,       \* the sink answers requests
    sink,         \* documents indexed in the sink, in the order they were indexed
    fireLog,      \* one record per Fire call, in call order
    pending,      \* goroutines spawned by asyncFlush that have not run yet
    errCalls,     \* invocations of the error-reporting callback
    pc,           \* where each calling goroutine is
    cur,          \* what a goroutine blocked in the bulk processor is doing
    proc,         \* the bulk processors
    wbuf,         \* each worker's buffered requests (its BulkService)
    busy,         \* workers that are committing a batch
    closes,       \* Close calls begun / returned, whether a flush of Close failed,
                  \* whether two Close calls ran at the same time, and how many
                  \* EnableBulkFlush calls came before the first Close
    crashed,      \* "no", or the call that panicked: "add" or "flush"
    levels,       \* Hook.levels, what Levels() returns
    threshold,    \* the argument of the last SetLevel call, NoLevel before the first
    records,      \* the log records (*logrus.Entry) handed to Fire, by call number
    newRet,       \* what New returned: "hook", "error", or "pending" while it has not
    indexExists   \* the collection New was given exists in the sink

vars == <<flushFunc, bulkProc, cancelChain, ctxDone, errorLogger, docType,
          formatter, sinkUp, sink, fireLog, pending, errCalls, pc, cur,
          proc, wbuf, busy, closes, crashed, levels, threshold, records,
          newRet, indexExists>>

cfgVars == <<errorLogger, docType, formatter, levels, threshold, newRet, indexExists>>
hookVars == <<flushFunc, bulkProc, cancelChain, cfgVars>>
procVars == <<proc, wbuf, busy>>

\* ------------------------------------------------------------- helpers
Index == "idx"         \* Hook.index, fixed by New

\* logrus levels, the most severe first: Panic, Fatal, Error, Warn, Info,
\* Debug, Trace are 0..6, and logrus.AllLevels lists them in that order.
PanicLevel == 0
ErrorLevel == 2
InfoLevel == 4
TraceLevel == 6
AllLevels == <<0, 1, 2, 3, 4, 5, 6>>
NoLevel == 0 - 1       \* SetLevel has not been called

\* entry.Level.String()
LevelString(l) ==
    CASE l = 0 -> "panic" [] l = 1 -> "fatal" [] l = 2 -> "error"
      [] l = 3 -> "warning" [] l = 4 -> "info" [] l = 5 -> "debug"
      [] l = 6 -> "trace" [] OTHER -> "unknown"

\* The loop of SetLevel over the first n levels of logrus.AllLevels.
RECURSIVE SetLevelLoop(_, _)
SetLevelLoop(level, n) ==
    IF n = 0 THEN <<>>
    ELSE IF AllLevels[n] <= level
         THEN Append(SetLevelLoop(level, n - 1), AllLevels[n])
         ELSE SetLevelLoop(level, n - 1)

ErrorKey == "error"    \* logrus.ErrorKey

\* A value of entry.Data: an error value, a string or nil, with its text.
ErrValue(text) == [kind |-> "error", text |-> text]
StrValue(text) == [kind |-> "string", text |-> text]
NilValue == [kind |-> "nil", text |-> ""]

\* The records tried: the Info record of simpleTest, the Error record with an
\* error value of TestHook_WriteError, and a Trace record whose error key holds
\* nil beside another field.  A time is an instant and the zone it is shown in.
HelloRecord ==
    [time |-> [instant |-> 1, zone |-> "UTC"], message |-> "Hello world!",
     level |-> InfoLevel, data |-> <<>>]

Records ==
    { HelloRecord,
      [time |-> [instant |-> 2, zone |-> "+03:00"], message |-> "error sample",
       level |-> ErrorLevel, data |-> (ErrorKey :> ErrValue("this is error"))],
      [time |-> [instant |-> 3, zone |-> "UTC"], message |-> "trace sample",
       level |-> TraceLevel,
       data |-> (ErrorKey :> NilValue) @@ ("user" :> StrValue("u1"))] }

\* entry.Time.UTC().Format(time.RFC3339Nano): the instant, rendered in UTC.
Timestamp(t) == [rfc3339 |-> t.instant, zone |-> "Z"]

\* The entry as defaultFormatter leaves it: an error under the error key is
\* replaced by its Error() string.
Stringified(entry) ==
    IF /\ ErrorKey \in DOMAIN entry.data
       /\ entry.data[ErrorKey].kind = "error"
    THEN [entry EXCEPT !.data[ErrorKey] = StrValue(@.text)]
    ELSE entry

\* defaultFormatter that leaves the field mapping out of the Message.
defaultFormatterNoData(entry) ==
    [entry |-> Stringified(entry),
     message |-> ("@timestamp" :> Timestamp(entry.time))
                 @@ ("message" :> entry.message)
                 @@ ("level" :> LevelString(entry.level))]

\* defaultFormatter that converts the error in a copy of the field mapping
\* and leaves the entry as it was.
defaultFormatterCopy(entry) ==
    [entry |-> entry,
     message |-> ("@timestamp" :> Timestamp(entry.time))
                 @@ ("message" :> entry.message)
                 @@ ("level" :> LevelString(entry.level))
                 @@ ("data" :> Stringified(entry).data)]

\* defaultFormatter: the entry after the call and the Message returned, whose
\* "data" is the entry's own map.
defaultFormatter(entry) ==
    [entry |-> Stringified(entry),
     message |-> ("@timestamp" :> Timestamp(entry.time))
                 @@ ("message" :> entry.message)
                 @@ ("level" :> LevelString(entry.level))
                 @@ ("data" :> Stringified(entry).data)]

\* The formatter of TestHook_WithCustomFormatter: the same fields without the
\* conversion of the error, and a "component" field.
customFormatter(entry) ==
    [entry |-> entry,
     message |-> ("@timestamp" :> Timestamp(entry.time))
                 @@ ("message" :> entry.message)
                 @@ ("level" :> LevelString(entry.level))
                 @@ ("data" :> entry.data)
                 @@ ("component" :> "test")]

\* hook.formatter(entry) for record e.
Formatted(e) ==
    IF formatter = "default" THEN defaultFormatter(records[e])
    ELSE customFormatter(records[e])

\* The document a strategy builds from entry e: hook.formatter(entry), sent to
\* Index(hook.index).Type(hook.docType).  via records which step indexed it.
Doc(e, via) ==
    [entry |-> e, index |-> Index, type |-> docType, fmt |-> formatter, via |-> via,
     body |-> Formatted(e).message]

\* What a Fire call is logged with: the outcome of the call and, as they were
\* when Fire was called, whether the record's level is one of Levels(), the
\* formatter and the document type.  formats counts the formatter's calls.
Call(e, mode, ret, attempts, ok, p, formats) ==
    [mode |-> mode, ret |-> ret, attempts |-> attempts, ok |-> ok, proc |-> p,
     formats |-> formats, fmt |-> formatter, type |-> docType,
     enabled |-> \E i \in 1..Len(levels) : levels[i] = records[e].level]

\* One index request under hook.ctx: client.Index()...Do(hook.ctx).
IndexOk == sinkUp /\ ~ctxDone

NoDoc == [entry |-> 0, index |-> "", type |-> "", fmt |-> "", via |-> "", body |-> <<>>]
Blank == [p |-> NilProc, doc |-> NoDoc, todo |-> <<>>]

NoProc == [status |-> "none", workers |-> 1, actions |-> 0,
           interval |-> FALSE, bounded |-> TRUE]

\* The hook New returns.  errorLogger is an unexported field that no method
\* sets: code of the package either leaves it nil or assigns it before use.
Built ==
    /\ flushFunc = "sync"
    /\ bulkProc = NilProc
    /\ cancelChain = <<>>
    /\ ctxDone = FALSE
    /\ errorLogger \in BOOLEAN
    /\ docType = "doc"
    /\ formatter = "default"
    /\ levels = AllLevels
    /\ threshold = NoLevel
    /\ newRet = "hook"
    /\ indexExists = TRUE
    /\ sinkUp = TRUE
    /\ sink = <<>>
    /\ fireLog = <<>>
    /\ pending = {}
    /\ errCalls = {}
    /\ pc = [t \in Threads |-> "idle"]
    /\ cur = [t \in Threads |-> Blank]
    /\ proc = [p \in Procs |-> NoProc]
    /\ wbuf = [p \in Procs |-> [w \in Workers |-> <<>>]]
    /\ busy = [p \in Procs |-> {}]
    /\ closes = [begun |-> 0, returned |-> 0, flushFailed |-> FALSE,
                 overlap |-> FALSE, chain |-> 0]
    /\ crashed = "no"

\* The hook New returned, in a program that logs the record of simpleTest.
Init == Built /\ records = [e \in 1..MaxFires |-> HelloRecord]

\* The same hook, in a program that logs any of the records.
InitRecords == Built /\ records \in [1..MaxFires -> Records]

\* ------------------------------------------------------------- the sink
SinkDown ==
    /\ crashed = "no" /\ sinkUp
    /\ sinkUp' = FALSE
    /\ UNCHANGED <<hookVars, records, ctxDone, sink, fireLog, pending, errCalls, pc, cur,
                   procVars, closes, crashed>>

SinkRecover ==
    /\ crashed = "no" /\ ~sinkUp
    /\ sinkUp' = TRUE
    /\ UNCHANGED <<hookVars, records, ctxDone, sink, fireLog, pending, errCalls, pc, cur,
                   procVars, closes, crashed>>

\* ------------------------------------------------------------- strategies
EnableSyncFlush ==
    /\ crashed = "no"
    /\ flushFunc' = "sync"
    /\ UNCHANGED <<bulkProc, cancelChain, ctxDone, cfgVars, records,
                   sinkUp, sink, fireLog, pending, errCalls, pc, cur, procVars,
                   closes, crashed>>

EnableAsyncFlush ==
    /\ crashed = "no"
    /\ flushFunc' = "async"
    /\ UNCHANGED <<bulkProc, cancelChain, ctxDone, cfgVars, records,
                   sinkUp, sink, fireLog, pending, errCalls, pc, cur, procVars,
                   closes, crashed>>

\* ------------------------------------------------------------- New
\* Before New: there is no hook yet, the sink may be down and the collection
\* may be missing.
InitNew ==
    /\ newRet = "pending"
    /\ sinkUp \in BOOLEAN
    /\ indexExists \in BOOLEAN
    /\ flushFunc = "none"
    /\ bulkProc = NilProc
    /\ cancelChain = <<>>
    /\ ctxDone = FALSE
    /\ errorLogger = FALSE
    /\ docType = ""
    /\ formatter = "none"
    /\ levels = <<>>
    /\ threshold = NoLevel
    /\ records \in [1..MaxFires -> Records]
    /\ sink = <<>>
    /\ fireLog = <<>>
    /\ pending = {}
    /\ errCalls = {}
    /\ pc = [t \in Threads |-> "idle"]
    /\ cur = [t \in Threads |-> Blank]
    /\ proc = [p \in Procs |-> NoProc]
    /\ wbuf = [p \in Procs |-> [w \in Workers |-> <<>>]]
    /\ busy = [p \in Procs |-> {}]
    /\ closes = [begun |-> 0, returned |-> 0, flushFailed |-> FALSE,
                 overlap |-> FALSE, chain |-> 0]
    /\ crashed = "no"

\* New that forgets to test the answer of the existence check.
NewUnchecked ==
    /\ newRet = "pending"
    /\ IF ~sinkUp
       THEN /\ newRet' = "err"
            /\ ctxDone' = TRUE
            /\ UNCHANGED <<flushFunc, docType, formatter, levels>>
       ELSE /\ newRet' = "hook"
            /\ ctxDone' = FALSE
            /\ flushFunc' = "sync"
            /\ docType' = "doc"
            /\ formatter' = "default"
            /\ levels' = AllLevels
    /\ UNCHANGED <<bulkProc, cancelChain, errorLogger, threshold, indexExists,
                   records, sinkUp, sink, fireLog, pending, errCalls, pc, cur,
                   procVars, closes, crashed>>

\* New: the context is created, the existence check runs under it; on an
\* error or a missing collection the context is cancelled and no hook is
\* returned, otherwise the hook with its default fields.
New ==
    /\ newRet = "pending"
    /\ IF ~sinkUp
       THEN /\ newRet' = "err"
            /\ ctxDone' = TRUE
            /\ UNCHANGED <<flushFunc, docType, formatter, levels>>
       ELSE IF ~indexExists
       THEN /\ newRet' = "absent"
            /\ ctxDone' = TRUE
            /\ UNCHANGED <<flushFunc, docType, formatter, levels>>
       ELSE /\ newRet' = "hook"
            /\ ctxDone' = FALSE
            /\ flushFunc' = "sync"
            /\ docType' = "doc"
            /\ formatter' = "default"
            /\ levels' = AllLevels
    /\ UNCHANGED <<bulkProc, cancelChain, errorLogger, threshold, indexExists,
                   records, sinkUp, sink, fireLog, pending, errCalls, pc, cur,
                   procVars, closes, crashed>>

\* ------------------------------------------------------------- configuration
\* SetLevel with a strict comparison, which leaves the level itself out.
SetLevelStrict(level) ==
    /\ crashed = "no"
    /\ levels' = SelectSeq(AllLevels, LAMBDA l : l < level)
    /\ threshold' = level
    /\ UNCHANGED <<flushFunc, bulkProc, cancelChain, ctxDone, errorLogger, docType,
                   formatter, newRet, indexExists, records, sinkUp, sink, fireLog,
                   pending, errCalls, pc, cur, procVars, closes, crashed>>

\* Hook.SetLevel
SetLevel(level) ==
    /\ crashed = "no"
    /\ levels' = SetLevelLoop(level, Len(AllLevels))
    /\ threshold' = level
    /\ UNCHANGED <<flushFunc, bulkProc, cancelChain, ctxDone, errorLogger, docType,
                   formatter, newRet, indexExists, records, sinkUp, sink, fireLog,
                   pending, errCalls, pc, cur, procVars, closes, crashed>>

Formatters == {"default", "custom"}
DocTypes == {"doc", "log"}

\* Hook.SetFormatter
SetFormatter(f) ==
    /\ crashed = "no"
    /\ formatter' = f
    /\ UNCHANGED <<flushFunc, bulkProc, cancelChain, ctxDone, errorLogger, docType,
                   levels, threshold, newRet, indexExists, records, sinkUp, sink,
                   fireLog, pending, errCalls, pc, cur, procVars, closes, crashed>>

\* Hook.SetDocumentType
SetDocumentType(t) ==
    /\ crashed = "no"
    /\ docType' = t
    /\ UNCHANGED <<flushFunc, bulkProc, cancelChain, ctxDone, errorLogger, formatter,
                   levels, threshold, newRet, indexExists, records, sinkUp, sink,
                   fireLog, pending, errCalls, pc, cur, procVars, closes, crashed>>

\* syncFlush that hands the request to a goroutine and returns at once.
FireSyncDetached(t) ==
    /\ crashed = "no" /\ pc[t] = "idle" /\ flushFunc = "sync"
    /\ Len(fireLog) < MaxFires
    /\ LET e == Len(fireLog) + 1 IN
       /\ pending' = pending \cup {e}
       /\ fireLog' = Append(fireLog, Call(e, "sync", "nil", 0, FALSE, NilProc, 0))
    /\ UNCHANGED <<hookVars, records, ctxDone, sinkUp, sink, errCalls, pc, cur,
                   procVars, closes, crashed>>

\* syncFlush that drops the error of its request.
FireSyncSwallow(t) ==
    /\ crashed = "no" /\ pc[t] = "idle" /\ flushFunc = "sync"
    /\ Len(fireLog) < MaxFires
    /\ LET e == Len(fireLog) + 1 IN
       /\ sink' = IF IndexOk THEN Append(sink, Doc(e, "sync")) ELSE sink
       /\ records' = [records EXCEPT ![e] = Formatted(e).entry]
       /\ fireLog' = Append(fireLog, Call(e, "sync", "nil", 1, IndexOk, NilProc, 1))
    /\ UNCHANGED <<hookVars, ctxDone, sinkUp, pending, errCalls, pc, cur,
                   procVars, closes, crashed>>

\* Hook.Fire with flushFunc = syncFlush: one blocking index request, whose
\* error is returned.
FireSync(t) ==
    /\ crashed = "no" /\ pc[t] = "idle" /\ flushFunc = "sync"
    /\ Len(fireLog) < MaxFires
    /\ LET e == Len(fireLog) + 1 IN
       /\ sink' = IF IndexOk THEN Append(sink, Doc(e, "sync")) ELSE sink
       /\ records' = [records EXCEPT ![e] = Formatted(e).entry]
       /\ fireLog' = Append(fireLog,
              Call(e, "sync", IF IndexOk THEN "nil" ELSE "err", 1, IndexOk, NilProc, 1))
    /\ UNCHANGED <<hookVars, ctxDone, sinkUp, pending, errCalls, pc, cur,
                   procVars, closes, crashed>>

\* asyncFlush that runs the request in the caller and returns its error.
FireAsyncBlocking(t) ==
    /\ crashed = "no" /\ pc[t] = "idle" /\ flushFunc = "async"
    /\ Len(fireLog) < MaxFires
    /\ LET e == Len(fireLog) + 1 IN
       /\ sink' = IF IndexOk THEN Append(sink, Doc(e, "async")) ELSE sink
       /\ records' = [records EXCEPT ![e] = Formatted(e).entry]
       /\ fireLog' = Append(fireLog,
              Call(e, "async", IF IndexOk THEN "nil" ELSE "err", 1, IndexOk, NilProc, 1))
    /\ UNCHANGED <<hookVars, ctxDone, sinkUp, pending, errCalls, pc, cur,
                   procVars, closes, crashed>>

\* Hook.Fire with flushFunc = asyncFlush: spawns the goroutine, returns nil.
FireAsync(t) ==
    /\ crashed = "no" /\ pc[t] = "idle" /\ flushFunc = "async"
    /\ Len(fireLog) < MaxFires
    /\ LET e == Len(fireLog) + 1 IN
       /\ pending' = pending \cup {e}
       /\ fireLog' = Append(fireLog, Call(e, "async", "nil", 0, FALSE, NilProc, 0))
    /\ UNCHANGED <<hookVars, records, ctxDone, sinkUp, sink, errCalls, pc, cur,
                   procVars, closes, crashed>>

\* A goroutine of asyncFlush that gives up, without a request, when another
\* delivery is still under way.
AsyncRunLossy(e) ==
    /\ crashed = "no" /\ e \in pending
    /\ pending' = pending \ {e}
    /\ LET send == pending = {e} IN
       /\ sink' = IF send /\ IndexOk THEN Append(sink, Doc(e, "async")) ELSE sink
       /\ records' = IF send THEN [records EXCEPT ![e] = Formatted(e).entry]
                     ELSE records
       /\ fireLog' = IF send
                     THEN [fireLog EXCEPT ![e].attempts = @ + 1, ![e].ok = IndexOk,
                                          ![e].formats = @ + 1]
                     ELSE fireLog
       /\ errCalls' = IF send /\ errorLogger
                      THEN errCalls \cup {[msg |-> "couldn't send log to elastic",
                                           entry |-> e, err |-> ~IndexOk]}
                      ELSE errCalls
    /\ UNCHANGED <<hookVars, ctxDone, sinkUp, pc, cur, procVars, closes, crashed>>

\* The goroutine of asyncFlush: syncFlush(entry, hook), then the callback.
AsyncRun(e) ==
    /\ crashed = "no" /\ e \in pending
    /\ pending' = pending \ {e}
    /\ sink' = IF IndexOk THEN Append(sink, Doc(e, "async")) ELSE sink
    /\ records' = [records EXCEPT ![e] = Formatted(e).entry]
    /\ fireLog' = [fireLog EXCEPT ![e].attempts = @ + 1, ![e].ok = IndexOk,
                                  ![e].formats = @ + 1]
    /\ errCalls' = IF errorLogger
                   THEN errCalls \cup {[msg |-> "couldn't send log to elastic",
                                        entry |-> e, err |-> ~IndexOk]}
                   ELSE errCalls
    /\ UNCHANGED <<hookVars, ctxDone, sinkUp, pc, cur, procVars, closes, crashed>>

\* ------------------------------------------------------------- bulk
\* The BulkOptions tried: the zero value (one worker, the library's default
\* thresholds, which MaxFires requests never reach, no periodic flush, the
\* default bounded backoff), the options of newHookWithBulkFlush, a small
\* bulk-actions threshold, and a backoff policy that never gives up.
BulkOptions ==
    { [workers |-> 1, actions |-> 0, interval |-> FALSE, bounded |-> TRUE],
      [workers |-> MaxWorkers, actions |-> 0, interval |-> TRUE, bounded |-> TRUE],
      [workers |-> 1, actions |-> SmallBulkActions, interval |-> FALSE, bounded |-> TRUE],
      [workers |-> 1, actions |-> 0, interval |-> FALSE, bounded |-> FALSE] }

\* Hook.EnableBulkFlush.  started is the outcome of the processor's start:
\* when it fails the processor is nil and the error is returned, after the
\* cancel wrapper and the bulk closure have been installed all the same.
EnableBulkFlush(options, started) ==
    /\ crashed = "no"
    /\ Len(cancelChain) < MaxChain
    /\ LET p == IF started THEN Len(cancelChain) + 1 ELSE NilProc
       IN /\ proc' = IF started
                     THEN [proc EXCEPT ![p] =
                              [status |-> "running", workers |-> options.workers,
                               actions |-> options.actions,
                               interval |-> options.interval,
                               bounded |-> options.bounded]]
                     ELSE proc
          /\ cancelChain' = Append(cancelChain, p)
          /\ bulkProc' = p
          /\ flushFunc' = "bulk"
    /\ UNCHANGED <<ctxDone, cfgVars, records, sinkUp, sink, fireLog,
                   pending, errCalls, pc, cur, wbuf, busy, closes, crashed>>

\* EnableBulkFlush in a program that calls it at most MaxProcs times.
EnableBulkFlushCapped(options, started) ==
    Len(cancelChain) < MaxProcs /\ EnableBulkFlush(options, started)

Usable(p) == p # NilProc /\ proc[p].status = "running"

\* A bulk closure that also sends the document itself, as syncFlush does.
FireBulkAlsoSync(t) ==
    /\ crashed = "no" /\ pc[t] = "idle" /\ flushFunc = "bulk"
    /\ Len(fireLog) < MaxFires
    /\ Usable(bulkProc)
    /\ LET e == Len(fireLog) + 1 IN
       /\ sink' = IF IndexOk THEN Append(sink, Doc(e, "sync")) ELSE sink
       /\ pc' = [pc EXCEPT ![t] = "add"]
       /\ cur' = [cur EXCEPT ![t] = [p |-> bulkProc, doc |-> Doc(e, "buffer"), todo |-> <<>>]]
       /\ records' = [records EXCEPT ![e] = Formatted(e).entry]
       /\ fireLog' = Append(fireLog, Call(e, "bulk", "blocked", 0, FALSE, bulkProc, 1))
    /\ UNCHANGED <<hookVars, ctxDone, sinkUp, pending, errCalls,
                   procVars, closes, crashed>>

\* A bulk closure that hands its request over twice: once straight into the
\* first worker's service and once through Add.
FireBulkDouble(t) ==
    /\ crashed = "no" /\ pc[t] = "idle" /\ flushFunc = "bulk"
    /\ Len(fireLog) < MaxFires
    /\ Usable(bulkProc)
    /\ LET e == Len(fireLog) + 1 IN
       /\ wbuf' = [wbuf EXCEPT ![bulkProc][1] = Append(@, Doc(e, "buffer"))]
       /\ pc' = [pc EXCEPT ![t] = "add"]
       /\ cur' = [cur EXCEPT ![t] = [p |-> bulkProc, doc |-> Doc(e, "buffer"), todo |-> <<>>]]
       /\ records' = [records EXCEPT ![e] = Formatted(e).entry]
       /\ fireLog' = Append(fireLog, Call(e, "bulk", "blocked", 0, FALSE, bulkProc, 1))
    /\ UNCHANGED <<hookVars, ctxDone, sinkUp, sink, pending, errCalls,
                   proc, busy, closes, crashed>>

\* Hook.Fire with the bulk closure: builds the request from the hook's fields
\* and calls processor.Add, which blocks until a worker takes the request.
FireBulk(t) ==
    /\ crashed = "no" /\ pc[t] = "idle" /\ flushFunc = "bulk"
    /\ Len(fireLog) < MaxFires
    /\ LET e == Len(fireLog) + 1 IN
       IF Usable(bulkProc)
       THEN /\ pc' = [pc EXCEPT ![t] = "add"]
            /\ cur' = [cur EXCEPT ![t] = [p |-> bulkProc, doc |-> Doc(e, "buffer"), todo |-> <<>>]]
            /\ fireLog' = Append(fireLog,
                   Call(e, "bulk", "blocked", 0, FALSE, bulkProc, 1))
            /\ UNCHANGED crashed
       ELSE /\ crashed' = "add"
            /\ fireLog' = Append(fireLog,
                   Call(e, "bulk", "panic", 0, FALSE, bulkProc, 1))
            /\ UNCHANGED <<pc, cur>>
    /\ records' = [records EXCEPT ![Len(fireLog) + 1] = Formatted(Len(fireLog) + 1).entry]
    /\ UNCHANGED <<hookVars, ctxDone, sinkUp, sink, pending, errCalls,
                   procVars, closes>>

CommitRequired(p, buf) ==
    proc[p].actions > 0 /\ Len(buf) >= proc[p].actions

\* A worker of the processor receives the request of a blocked Add; Add and
\* with it Fire return.  The request was built when Fire was called.
WorkerRecv(t, w) ==
    /\ crashed = "no" /\ pc[t] = "add"
    /\ LET p == cur[t].p
           e == cur[t].doc.entry
           buf == Append(wbuf[p][w], cur[t].doc)
       IN /\ Usable(p) /\ w \in 1..proc[p].workers /\ w \notin busy[p]
          /\ wbuf' = [wbuf EXCEPT ![p][w] = buf]
          /\ busy' = IF CommitRequired(p, buf)
                     THEN [busy EXCEPT ![p] = @ \cup {w}] ELSE busy
          /\ fireLog' = [fireLog EXCEPT ![e].ret = "nil"]
    /\ pc' = [pc EXCEPT ![t] = "idle"]
    /\ cur' = [cur EXCEPT ![t] = Blank]
    /\ UNCHANGED <<hookVars, records, ctxDone, sinkUp, sink, pending, errCalls, proc,
                   closes, crashed>>

\* A blocked Add whose processor has been stopped meanwhile: the send on the
\* closed request channel panics.
AddPanic(t) ==
    /\ crashed = "no" /\ pc[t] = "add" /\ ~Usable(cur[t].p)
    /\ crashed' = "add"
    /\ fireLog' = [fireLog EXCEPT ![cur[t].doc.entry].ret = "panic"]
    /\ UNCHANGED <<hookVars, records, ctxDone, sinkUp, sink, pending, errCalls, pc, cur,
                   procVars, closes>>

Sent(buf, via) == [i \in 1..Len(buf) |-> [buf[i] EXCEPT !.via = via]]

\* A commit can come to an end: the bulk request succeeds, or the backoff
\* policy gives up.  The processor's context is context.Background(), so the
\* hook's cancel does not interrupt it.
CanCommit(p) == sinkUp \/ proc[p].bounded

\* The worker's commit after the bulk-actions threshold was reached.  On
\* failure the requests stay in the worker's service.
WorkerCommit(p, w) ==
    /\ crashed = "no" /\ w \in busy[p] /\ CanCommit(p)
    /\ busy' = [busy EXCEPT ![p] = @ \ {w}]
    /\ sink' = IF sinkUp THEN sink \o Sent(wbuf[p][w], "actions") ELSE sink
    /\ wbuf' = IF sinkUp THEN [wbuf EXCEPT ![p][w] = <<>>] ELSE wbuf
    /\ UNCHANGED <<hookVars, records, ctxDone, sinkUp, fireLog, pending, errCalls, pc, cur,
                   proc, closes, crashed>>

\* The outstanding requests of workers 1..n of p, in worker order.
RECURSIVE Outstanding(_, _)
Outstanding(p, n) ==
    IF n = 0 THEN <<>> ELSE Outstanding(p, n - 1) \o wbuf[p][n]

\* Every worker in turn is asked to commit what it holds (processor.Flush and
\* the workers' last commit in Stop); it answers only between two commits.
CanFlush(p) ==
    /\ busy[p] = {}
    /\ Outstanding(p, proc[p].workers) # <<>> => CanCommit(p)

FlushedSink(p, via) ==
    IF sinkUp THEN sink \o Sent(Outstanding(p, proc[p].workers), via) ELSE sink

FlushedBuf(p) ==
    IF sinkUp THEN [wbuf EXCEPT ![p] = [w \in Workers |-> <<>>]] ELSE wbuf

FlushFails(p) == ~sinkUp /\ Outstanding(p, proc[p].workers) # <<>>

\* The processor's flusher goroutine: a periodic processor.Flush().
Tick(p) ==
    /\ crashed = "no" /\ Usable(p) /\ proc[p].interval /\ CanFlush(p)
    /\ Outstanding(p, proc[p].workers) # <<>>
    /\ sink' = FlushedSink(p, "interval")
    /\ wbuf' = FlushedBuf(p)
    /\ UNCHANGED <<hookVars, records, ctxDone, sinkUp, fireLog, pending, errCalls, pc, cur,
                   proc, busy, closes, crashed>>

\* ------------------------------------------------------------- Close
Bump(n) == IF n < 2 THEN n + 1 ELSE n     \* calls are counted up to "twice"

\* Hook.Close: h.cancel().  The innermost function of the chain, the context's
\* cancel, runs first; then each wrapper flushes and closes its processor.
CloseCall(t) ==
    /\ crashed = "no" /\ pc[t] = "idle"
    /\ ctxDone' = TRUE
    /\ IF cancelChain = <<>>
       THEN /\ closes' = [closes EXCEPT !.begun = Bump(@), !.returned = Bump(@)]
            /\ UNCHANGED <<pc, cur>>
       ELSE /\ closes' = [closes EXCEPT
                             !.begun = Bump(@),
                             !.overlap = @ \/ \E u \in Threads : pc[u] \in {"flush", "stop"},
                             !.chain = IF closes.begun = 0 THEN Len(cancelChain) ELSE @]
            /\ pc' = [pc EXCEPT ![t] = "flush"]
            /\ cur' = [cur EXCEPT ![t] = [p |-> NilProc, doc |-> NoDoc,
                                          todo |-> cancelChain]]
    /\ UNCHANGED <<hookVars, records, sinkUp, sink, fireLog, pending, errCalls, procVars,
                   crashed>>

\* e := processor.Flush() in the cancel wrapper.  Flush returns nil whatever
\* the commits did, so the callback is not invoked; on a nil or stopped
\* processor it panics.
CloseFlush(t) ==
    /\ crashed = "no" /\ pc[t] = "flush"
    /\ LET p == Head(cur[t].todo) IN
       IF Usable(p)
       THEN /\ CanFlush(p)
            /\ sink' = FlushedSink(p, "close")
            /\ wbuf' = FlushedBuf(p)
            /\ closes' = [closes EXCEPT !.flushFailed = @ \/ FlushFails(p)]
            /\ pc' = [pc EXCEPT ![t] = "stop"]
            /\ UNCHANGED crashed
       ELSE /\ crashed' = "flush"
            /\ UNCHANGED <<sink, wbuf, closes, pc>>
    /\ UNCHANGED <<hookVars, records, ctxDone, sinkUp, fireLog, pending, errCalls, cur,
                   proc, busy>>

\* e = processor.Close() in the cancel wrapper: a no-op on a processor that is
\* not started; otherwise the flusher is stopped, the request channel closed,
\* every worker commits what it still holds and exits.  It returns nil.
CloseStop(t) ==
    /\ crashed = "no" /\ pc[t] = "stop"
    /\ LET p == Head(cur[t].todo)
           rest == Tail(cur[t].todo)
       IN /\ IF proc[p].status = "running"
             THEN /\ CanFlush(p)
                  /\ sink' = FlushedSink(p, "stop")
                  /\ wbuf' = FlushedBuf(p)
                  /\ proc' = [proc EXCEPT ![p].status = "stopped"]
                  /\ closes' = [closes EXCEPT
                                   !.flushFailed = @ \/ FlushFails(p),
                                   !.returned = IF rest = <<>> THEN Bump(@) ELSE @]
             ELSE /\ closes' = [closes EXCEPT
                                   !.returned = IF rest = <<>> THEN Bump(@) ELSE @]
                  /\ UNCHANGED <<sink, wbuf, proc>>
          /\ pc' = [pc EXCEPT ![t] = IF rest = <<>> THEN "idle" ELSE "flush"]
          /\ cur' = [cur EXCEPT ![t] = IF rest = <<>> THEN Blank
                                       ELSE [@ EXCEPT !.todo = rest]]
    /\ UNCHANGED <<hookVars, records, ctxDone, sinkUp, fireLog, pending, errCalls, busy,
                   crashed>>

Next ==
    \/ SinkDown
    \/ SinkRecover
    \/ EnableSyncFlush
    \/ EnableAsyncFlush
    \/ \E t \in Threads : FireSync(t)
    \/ \E t \in Threads : FireAsync(t)
    \/ \E e \in 1..MaxFires : AsyncRun(e)
    \/ \E o \in BulkOptions, started \in BOOLEAN : EnableBulkFlushCapped(o, started)
    \/ \E t \in Threads : FireBulk(t)
    \/ \E t \in Threads, w \in Workers : WorkerRecv(t, w)
    \/ \E t \in Threads : AddPanic(t)
    \/ \E p \in Procs, w \in Workers : WorkerCommit(p, w)
    \/ \E p \in Procs : Tick(p)
    \/ \E t \in Threads : CloseCall(t)
    \/ \E t \in Threads : CloseFlush(t)
    \/ \E t \in Threads : CloseStop(t)

Spec == Init /\ [][Next]_vars

\* A hook on which EnableBulkFlush is never called: the Sync and Async
\* strategies, the sink and Close.
NextDirect ==
    \/ SinkDown
    \/ SinkRecover
    \/ EnableSyncFlush
    \/ EnableAsyncFlush
    \/ \E t \in Threads : FireSync(t)
    \/ \E t \in Threads : FireAsync(t)
    \/ \E e \in 1..MaxFires : AsyncRun(e)
    \/ \E t \in Threads : CloseCall(t)

DirectSpec == Init /\ [][NextDirect]_vars

DirectFairSpec == DirectSpec /\ \A e \in 1..MaxFires : WF_vars(AsyncRun(e))

\* A program that logs any of the records through a hook whose level it
\* sets, in the Sync and Async strategies.
NextLevel ==
    \/ \E l \in 1..Len(AllLevels) : SetLevel(AllLevels[l])
    \/ EnableSyncFlush
    \/ EnableAsyncFlush
    \/ \E t \in Threads : FireSync(t)
    \/ \E t \in Threads : FireAsync(t)
    \/ \E e \in 1..MaxFires : AsyncRun(e)

LevelSpec == InitRecords /\ [][NextLevel]_vars

\* A program that logs any of the records through a hook whose formatter and
\* document type it sets, in the Sync and Async strategies.
NextFormat ==
    \/ \E f \in Formatters : SetFormatter(f)
    \/ \E t \in DocTypes : SetDocumentType(t)
    \/ EnableSyncFlush
    \/ EnableAsyncFlush
    \/ \E t \in Threads : FireSync(t)
    \/ \E t \in Threads : FireAsync(t)
    \/ \E e \in 1..MaxFires : AsyncRun(e)

FormatSpec == InitRecords /\ [][NextFormat]_vars

\* The options of newHookWithBulkFlush: several workers and a flush interval.
TestOptions ==
    [workers |-> MaxWorkers, actions |-> 0, interval |-> TRUE, bounded |-> TRUE]

\* A program that logs any of the records in each of the three strategies,
\* with either formatter, the sink staying reachable and the hook open; the
\* bulk processor has the options of the tests.
NextModes ==
    \/ \E f \in Formatters : SetFormatter(f)
    \/ EnableSyncFlush
    \/ EnableAsyncFlush
    \/ \E started \in BOOLEAN : EnableBulkFlushCapped(TestOptions, started)
    \/ \E t \in Threads : FireSync(t)
    \/ \E t \in Threads : FireAsync(t)
    \/ \E e \in 1..MaxFires : AsyncRun(e)
    \/ \E t \in Threads : FireBulk(t)
    \/ \E t \in Threads, w \in Workers : WorkerRecv(t, w)
    \/ \E p \in Procs : Tick(p)

ModesSpec == InitRecords /\ [][NextModes]_vars

\* From before New: the construction, then the hook used without a bulk
\* processor.
NextNew == New \/ (newRet = "hook" /\ NextDirect)

NewSpec == InitNew /\ [][NextNew]_vars

\* A hook that is switched to the Bulk strategy and stays there.
NextBulk ==
    \/ SinkDown
    \/ SinkRecover
    \/ \E o \in BulkOptions, started \in BOOLEAN : EnableBulkFlushCapped(o, started)
    \/ \E t \in Threads : FireBulk(t)
    \/ \E t \in Threads, w \in Workers : WorkerRecv(t, w)
    \/ \E t \in Threads : AddPanic(t)
    \/ \E p \in Procs, w \in Workers : WorkerCommit(p, w)
    \/ \E p \in Procs : Tick(p)
    \/ \E t \in Threads : CloseCall(t)
    \/ \E t \in Threads : CloseFlush(t)
    \/ \E t \in Threads : CloseStop(t)

BulkSpec == Init /\ [][NextBulk]_vars

ZeroOptions == [workers |-> 1, actions |-> 0, interval |-> FALSE, bounded |-> TRUE]

\* A program that calls EnableBulkFlush(&BulkOptions{}) more than once and
\* switches strategy in between, the sink staying reachable: what is enqueued
\* stays buffered until Close.
NextChain ==
    \/ EnableSyncFlush
    \/ EnableAsyncFlush
    \/ \E started \in BOOLEAN : EnableBulkFlush(ZeroOptions, started)
    \/ \E t \in Threads : FireSync(t)
    \/ \E t \in Threads : FireAsync(t)
    \/ \E e \in 1..MaxFires : AsyncRun(e)
    \/ \E t \in Threads : FireBulk(t)
    \/ \E t \in Threads, w \in Workers : WorkerRecv(t, w)
    \/ \E t \in Threads : AddPanic(t)
    \/ \E t \in Threads : CloseCall(t)
    \/ \E t \in Threads : CloseFlush(t)
    \/ \E t \in Threads : CloseStop(t)

ChainSpec == Init /\ [][NextChain]_vars

\* The goroutines the Go scheduler runs: a spawned delivery, a worker's
\* commit, a worker's receive and the steps of Close are taken when they stay
\* possible.  The sink and the callers of the hook are under no obligation.
Fairness ==
    /\ \A e \in 1..MaxFires : WF_vars(AsyncRun(e))
    /\ \A p \in 1..MaxProcs, w \in Workers : WF_vars(WorkerCommit(p, w))
    /\ \A t \in Threads, w \in Workers : WF_vars(WorkerRecv(t, w))
    /\ \A t \in Threads : WF_vars(CloseFlush(t)) /\ WF_vars(CloseStop(t))

FairSpec == Spec /\ Fairness

\* The same, and a commit or a step of Close that can succeed again and again
\* (a retry while the sink comes and goes) eventually succeeds.
StrongFairness ==
    /\ \A e \in 1..MaxFires : WF_vars(AsyncRun(e))
    /\ \A p \in 1..MaxProcs, w \in Workers : SF_vars(WorkerCommit(p, w))
    /\ \A t \in Threads, w \in Workers : SF_vars(WorkerRecv(t, w))
    /\ \A t \in Threads : SF_vars(CloseFlush(t)) /\ SF_vars(CloseStop(t))

StrongFairSpec == Spec /\ StrongFairness

\* The hook that stays in the Bulk strategy, under the same scheduling.
BulkStrongFairSpec == BulkSpec /\ StrongFairness

\* ------------------------------------------------------------- properties
Fires(m) == {e \in 1..Len(fireLog) : fireLog[e].mode = m}
DocsOf(e) == {i \in 1..Len(sink) : sink[i].entry = e}
Called(e) == \E c \in errCalls : c.entry = e

\* C1: in Sync mode every Fire that returned without error has exactly one
\* document in the sink when it returns, a Fire that returned an error has
\* none, and the documents of Sync Fires are in the sink in call order.
C1_SyncInOrder ==
    /\ \A e \in Fires("sync") :
          /\ fireLog[e].ret = "nil" =>
                /\ Cardinality(DocsOf(e)) = 1
                /\ \A i \in DocsOf(e) : sink[i].via = "sync"
          /\ fireLog[e].ret # "nil" => DocsOf(e) = {}
    /\ \A i, j \in 1..Len(sink) :
          (i < j /\ sink[i].via = "sync" /\ sink[j].via = "sync")
              => sink[i].entry < sink[j].entry

C1_Witness ==
    /\ Len(fireLog) >= 2
    /\ \A e \in 1..Len(fireLog) : fireLog[e].mode = "sync" /\ fireLog[e].ret = "nil"
    /\ Len(sink) = Len(fireLog)

\* C2: a Sync Fire returns an error exactly when its index request failed,
\* the request is attempted once, and the callback is not invoked for it.
C2_SyncReturnsOutcome ==
    \A e \in Fires("sync") :
        /\ fireLog[e].ret \in {"nil", "err"}
        /\ fireLog[e].ret = "err" <=> ~fireLog[e].ok
        /\ fireLog[e].ret = "err" <=> DocsOf(e) = {}
        /\ fireLog[e].attempts = 1
        /\ ~Called(e)

C2_Witness ==
    /\ errorLogger
    /\ \E e \in Fires("sync") : fireLog[e].ret = "err"
    /\ \E e \in Fires("sync") : fireLog[e].ret = "nil"

\* C3 (as claimed): with a callback set, it is invoked for an Async delivery
\* exactly when that delivery's index request failed.
C3_CallbackIffFailed ==
    \A e \in Fires("async") :
        fireLog[e].attempts = 1 =>
            /\ Called(e) => ~fireLog[e].ok
            /\ errorLogger => (~fireLog[e].ok => Called(e))

\* C4: an Async Fire has returned nil, be its request still to run, done or
\* failed; nothing is indexed before the spawned goroutine runs.
C4_AsyncReturnsNil ==
    \A e \in Fires("async") :
        /\ fireLog[e].ret = "nil"
        /\ fireLog[e].attempts <= 1
        /\ e \in pending <=> fireLog[e].attempts = 0
        /\ e \in pending => DocsOf(e) = {}

C4_Witness ==
    \E e, f \in Fires("async") :
        /\ fireLog[e].attempts = 1 /\ ~fireLog[e].ok /\ fireLog[e].ret = "nil"
        /\ f \in pending

\* C5: under fair scheduling every Async Fire's document is eventually in the
\* sink exactly once, unless its request failed or the hook was closed (or the
\* process panicked); no Async document is ever in the sink twice.
Delivered(e) == Cardinality(DocsOf(e)) = 1 /\ e \notin pending
Failed(e) == e <= Len(fireLog) /\ fireLog[e].attempts = 1 /\ ~fireLog[e].ok

C5_AsyncEventuallyDelivered ==
    /\ [](\A e \in Fires("async") : Cardinality(DocsOf(e)) <= 1)
    /\ \A e \in 1..MaxFires :
          (e \in Fires("async")) ~>
              (Delivered(e) \/ Failed(e) \/ ctxDone \/ crashed # "no")

C5_Witness ==
    /\ Len(sink) = 2 /\ Fires("async") = {1, 2}
    /\ sink[1].entry = 2 /\ sink[2].entry = 1
    /\ ~ctxDone

Enqueued(e) == e \in Fires("bulk") /\ fireLog[e].ret = "nil"
Buffered(e) ==
    \E p \in Procs, w \in Workers : \E i \in 1..Len(wbuf[p][w]) : wbuf[p][w][i].entry = e

\* C6: in Bulk mode, while Close has not been called, no processor has a
\* flush interval and fewer requests than a bulk-actions threshold were made,
\* no Bulk document is in the sink; a periodic flush that reaches the sink
\* leaves nothing buffered in its processor; once the processor of an enqueued
\* document has been closed without a failed flush, the document is in the
\* sink exactly once and no longer buffered; no Bulk document is ever in the
\* sink twice.
C6_NoTrigger ==
    /\ closes.begun = 0
    /\ \A p \in Procs :
          /\ ~proc[p].interval
          /\ proc[p].actions = 0 \/ Cardinality(Fires("bulk")) < proc[p].actions

C6_State ==
    /\ C6_NoTrigger => \A e \in Fires("bulk") : DocsOf(e) = {}
    /\ \A e \in Fires("bulk") : Cardinality(DocsOf(e)) <= 1
    /\ \A e \in Fires("bulk") :
          (Enqueued(e) /\ proc[fireLog[e].proc].status = "stopped" /\ ~closes.flushFailed)
              => Cardinality(DocsOf(e)) = 1 /\ ~Buffered(e)

C6_IntervalStep ==
    \A i \in (Len(sink) + 1)..Len(sink') :
        sink'[i].via = "interval" =>
            \A w \in Workers : wbuf'[fireLog[sink'[i].entry].proc][w] = <<>>

C6_BulkFlushTriggers == []C6_State /\ [][C6_IntervalStep]_vars

C6_Witness ==
    /\ closes.returned >= 1 /\ ~closes.flushFailed
    /\ \E e \in Fires("bulk") :
          /\ Enqueued(e) /\ proc[fireLog[e].proc].status = "stopped"
          /\ \E i \in DocsOf(e) : sink[i].via = "close"
    /\ \E i \in 1..Len(sink) : sink[i].via = "interval"

\* C7 (as claimed): after a successful EnableBulkFlush every Bulk Fire returns
\* nil with its request handed to the processor: it does not panic, and while
\* it is in Add some worker is free to take the request without a commit (a
\* network round trip) coming first.
C7_BulkFireNeverFails ==
    /\ \A e \in Fires("bulk") :
          fireLog[e].proc # NilProc => fireLog[e].ret \in {"nil", "blocked"}
    /\ \A e \in Fires("bulk") :
          fireLog[e].ret = "nil" => Buffered(e) \/ DocsOf(e) # {}
    /\ \A t \in Threads :
          pc[t] = "add" =>
              \E w \in 1..proc[cur[t].p].workers : w \notin busy[cur[t].p]

InChain(p) == \E i \in 1..Len(cancelChain) : cancelChain[i] = p

\* C8 (as claimed): with every processor started successfully and Close calls
\* made one after the other, Close does not panic however often it is called,
\* and no document is sent twice.
C8_CloseIdempotent ==
    (~InChain(NilProc) /\ ~closes.overlap) =>
        /\ crashed # "flush"
        /\ \A e \in 1..Len(fireLog) : Cardinality(DocsOf(e)) <= 1

\* C9 (as claimed, a panic not counted against it): the first Close, once
\* begun and with no other Close running beside it, returns.
C9_CloseTerminates ==
    \A t \in Threads :
        (/\ pc[t] \in {"flush", "stop"}
         /\ closes.begun = 1 /\ closes.returned = 0 /\ ~closes.overlap)
            ~> (pc[t] = "idle" \/ crashed # "no" \/ closes.overlap)

\* C10 (as claimed, for the first Close): when Close has returned nothing is
\* left in the buffers of the processors it closed, and if the final flush
\* failed and a callback is set, the callback was invoked.
C10_CloseDrainsAndReports ==
    (closes.begun = 1 /\ closes.returned = 1) =>
        /\ \A p \in Procs : proc[p].status = "stopped" =>
              \A w \in Workers : wbuf[p][w] = <<>>
        /\ (closes.flushFailed /\ errorLogger) =>
              \E c \in errCalls : c.msg \in {"couldn't flush", "couldn't close"}

\* C11 (as claimed): a Fire whose record has a level that is not in Levels()
\* does not reach the delivery strategy: nothing is formatted, requested,
\* spawned or enqueued for it, and no document of it is in the sink.
C11_BelowThresholdNotDelivered ==
    \A e \in 1..Len(fireLog) :
        ~fireLog[e].enabled =>
            /\ fireLog[e].formats = 0 /\ fireLog[e].attempts = 0
            /\ e \notin pending /\ ~Buffered(e)
            /\ DocsOf(e) = {}

LevelSet == {levels[i] : i \in 1..Len(levels)}

\* C12: before any SetLevel call Levels() is the seven levels; after
\* SetLevel(L) it holds L and every more severe (numerically smaller) level,
\* each once, and nothing else; it changes only in a SetLevel call.
C12_State ==
    /\ Len(levels) = Cardinality(LevelSet)
    /\ threshold = NoLevel => LevelSet = PanicLevel..TraceLevel
    /\ threshold # NoLevel =>
          /\ threshold \in LevelSet
          /\ \A l \in PanicLevel..TraceLevel : l \in LevelSet <=> l <= threshold
          /\ LevelSet \subseteq PanicLevel..TraceLevel

C12_LevelsExact ==
    []C12_State /\ [][levels' # levels => threshold' # threshold]_vars

C12_Witness ==
    /\ threshold = ErrorLevel /\ levels = <<PanicLevel, 1, ErrorLevel>>
    /\ \E e \in 1..Len(fireLog) : ~fireLog[e].enabled

\* C13: in each strategy a Fire has invoked the formatter exactly once (an
\* Async Fire once its goroutine has run), and a document made by the default
\* formatter has exactly the fields "@timestamp", "message", "level" and
\* "data", holding the record's time in UTC, its message, the name of its
\* level and its field mapping.
DefaultFields == {"@timestamp", "message", "level", "data"}

C13_FormatsOnce ==
    /\ \A e \in 1..Len(fireLog) :
          fireLog[e].formats = IF e \in pending THEN 0 ELSE 1
    /\ \A i \in 1..Len(sink) :
          sink[i].fmt = "default" =>
              LET r == records[sink[i].entry] IN
              /\ DOMAIN sink[i].body = DefaultFields
              /\ sink[i].body["@timestamp"] = [rfc3339 |-> r.time.instant, zone |-> "Z"]
              /\ sink[i].body["message"] = r.message
              /\ sink[i].body["level"] = LevelString(r.level)
              /\ r.level = InfoLevel => sink[i].body["level"] = "info"
              /\ r.level = ErrorLevel => sink[i].body["level"] = "error"
              /\ sink[i].body["data"] = r.data

C13_Witness ==
    /\ \E i \in 1..Len(sink) :
          /\ sink[i].via = "interval" /\ sink[i].fmt = "default"
          /\ records[sink[i].entry].level = ErrorLevel
    /\ \E i \in 1..Len(sink) : sink[i].via = "async" /\ sink[i].fmt = "default"
    /\ \A e \in 1..Len(fireLog) : fireLog[e].formats = 1

\* C14: New returns a hook exactly when the existence check ran without
\* error and found the collection; otherwise it returns an error, no hook is
\* made and the context it created is cancelled.  The hook returned is in
\* Sync mode with the default formatter, document type "doc", the seven
\* levels and a context that is not cancelled.
C14_NewStep ==
    (newRet = "pending" /\ newRet' # "pending") =>
        /\ newRet' = "hook" <=> (sinkUp /\ indexExists)
        /\ newRet' # "hook" =>
              /\ newRet' \in {"err", "absent"}
              /\ ctxDone'
              /\ flushFunc' = "none" /\ levels' = <<>>
        /\ newRet' = "hook" =>
              /\ flushFunc' = "sync" /\ formatter' = "default" /\ docType' = "doc"
              /\ {levels'[i] : i \in 1..Len(levels')} = PanicLevel..TraceLevel
              /\ ~ctxDone' /\ cancelChain' = <<>>

C14_NewReturnsHookIffExists ==
    /\ [][C14_NewStep]_vars
    /\ [](newRet # "hook" => Len(fireLog) = 0 /\ flushFunc = "none")

C14_Witness == newRet = "absent" /\ ctxDone /\ sinkUp /\ ~indexExists

\* C15 (as claimed): every document, in the sink or buffered, was produced by
\* the formatter that was set on the hook when its Fire was called, and goes
\* to the hook's collection with the document type set at that time.
C15_FormatterAtFire ==
    /\ \A i \in 1..Len(sink) :
          /\ sink[i].fmt = fireLog[sink[i].entry].fmt
          /\ sink[i].type = fireLog[sink[i].entry].type
          /\ sink[i].index = Index
    /\ \A p \in Procs, w \in Workers : \A i \in 1..Len(wbuf[p][w]) :
          /\ wbuf[p][w][i].fmt = fireLog[wbuf[p][w][i].entry].fmt
          /\ wbuf[p][w][i].type = fireLog[wbuf[p][w][i].entry].type
          /\ wbuf[p][w][i].index = Index

\* C16 (as claimed): once a Close has returned, the context stays cancelled
\* and no step puts another document into the sink.
C16_Step == closes.returned >= 1 => (ctxDone /\ ctxDone' /\ Len(sink') = Len(sink))

C16_ClosedIsTerminal == [][C16_Step]_vars

\* The places of the buffers that hold a request of Fire e.
Slots(e) ==
    {s \in Procs \X Workers \X (1..MaxFires) :
        /\ s[3] <= Len(wbuf[s[1]][s[2]])
        /\ wbuf[s[1]][s[2]][s[3]].entry = e}

\* C18: in Bulk mode, however the Fire calls of several threads interleave
\* with the workers, the request of a Fire is in at most one place of the
\* buffers, is sent at most once, is never buffered and sent at the same time
\* and is not touched before Add has handed it over; once handed over it is
\* buffered or sent, and when its processor has been closed without a failed
\* flush it is sent.
C18_BulkSentAtMostOnce ==
    \A e \in Fires("bulk") :
        /\ Cardinality(Slots(e)) + Cardinality(DocsOf(e)) <= 1
        /\ ~Enqueued(e) => Slots(e) = {} /\ DocsOf(e) = {}
        /\ Enqueued(e) => Cardinality(Slots(e)) + Cardinality(DocsOf(e)) = 1
        /\ (Enqueued(e) /\ proc[fireLog[e].proc].status = "stopped"
               /\ ~closes.flushFailed) => Slots(e) = {}

C18_Witness ==
    /\ Fires("bulk") = {1, 2}
    /\ \E e, f \in Fires("bulk") :
          /\ DocsOf(e) # {}
          /\ \E s \in Slots(f) : s[2] = 2
    /\ closes.begun = 0

\* C19 (as claimed): an EnableBulkFlush whose processor could not be started
\* leaves the delivery strategy and the close action as they were, so the
\* hook never holds a processor that does not exist.
C19_FailedStep ==
    (\E o \in BulkOptions : EnableBulkFlush(o, FALSE)) =>
        UNCHANGED <<flushFunc, bulkProc, cancelChain>>

C19_FailedEnableLeavesHook ==
    /\ [][C19_FailedStep]_vars
    /\ [](~InChain(NilProc) /\ (flushFunc = "bulk" => bulkProc # NilProc))

\* C20 (as claimed): when the first Close is over, every processor that a
\* successful EnableBulkFlush had started before it is flushed and closed,
\* whatever the strategy was switched to in between, and every document
\* enqueued in one of them is in the sink; a processor is closed after the
\* context was cancelled and after the processors created before it.
C20_State ==
    (closes.begun >= 1 /\ ~closes.overlap /\ (closes.returned >= 1 \/ crashed # "no")) =>
        /\ \A p \in 1..closes.chain :
              cancelChain[p] # NilProc =>
                  /\ proc[p].status = "stopped"
                  /\ \A w \in Workers : wbuf[p][w] = <<>>
        /\ \A e \in Fires("bulk") :
              (Enqueued(e) /\ fireLog[e].proc <= closes.chain) => DocsOf(e) # {}

C20_StopStep ==
    \A p \in Procs :
        (proc[p].status = "running" /\ proc'[p].status = "stopped") =>
            /\ ctxDone
            /\ \A q \in 1..(p - 1) : proc[q].status # "running"

C20_CloseFlushesEveryProcessor == []C20_State /\ [][C20_StopStep]_vars

\* C17: a step changes a record only where the default formatter found an
\* error value under the error key, which it replaces by the string of the
\* error; the record's time, message, level, keys and other values stay.  When
\* the default formatter formats a record, an error value under the error key
\* is so replaced.  Formatting a formatted record again returns the document
\* already made and leaves the record as it is.
C17_Frame ==
    \A e \in 1..MaxFires :
        LET r == records[e]
            q == records'[e]
        IN /\ q.time = r.time /\ q.message = r.message /\ q.level = r.level
           /\ DOMAIN q.data = DOMAIN r.data
           /\ \A k \in DOMAIN r.data :
                 \/ q.data[k] = r.data[k]
                 \/ /\ k = ErrorKey /\ r.data[k].kind = "error"
                    /\ q.data[k] = [kind |-> "string", text |-> r.data[k].text]
                    /\ formatter = "default"

C17_Converts ==
    \A e \in 1..Len(fireLog') :
        (/\ formatter = "default"
         /\ fireLog'[e].formats = 1
         /\ e > Len(fireLog) \/ fireLog[e].formats = 0
         /\ ErrorKey \in DOMAIN records[e].data) =>
            records'[e].data[ErrorKey].kind # "error"

C17_Again ==
    \A i \in 1..Len(sink) :
        sink[i].fmt = "default" =>
            /\ defaultFormatter(records[sink[i].entry]).message = sink[i].body
            /\ defaultFormatter(records[sink[i].entry]).entry = records[sink[i].entry]

C17_DefaultFormatterFrame ==
    /\ [][C17_Frame /\ C17_Converts]_vars
    /\ []C17_Again

C17_Witness ==
    \E i \in 1..Len(sink) :
        /\ sink[i].fmt = "default"
        /\ records[sink[i].entry].level = ErrorLevel
        /\ records[sink[i].entry].data[ErrorKey] = StrValue("this is error")
        /\ sink[i].body["data"][ErrorKey] = StrValue("this is error")
====
